---- MODULE Spec2Model ----
(***************************************************************************)
(* Model of script.js: the translation page of the language converter.     *)
(*                                                                         *)
(* The state is the page (the DOM elements the script reads and writes),   *)
(* the two globals selectedTargetLang and isTranslating, and the one       *)
(* activation of translateText that the page can have in progress, with    *)
(* the timers and network requests it created.                             *)
(*                                                                         *)
(* Strings the user types are run-length encoded: a text is a sequence of  *)
(* runs [ch, n], neighbouring runs having different characters, so that a  *)
(* text of 5001 characters is one run.  Time advances in ticks, of which   *)
(* TicksPerTimeout make the TIMEOUT_MS of setTimeout.                      *)
(*                                                                         *)
(* JavaScript runs a handler and the promise continuations it triggers to  *)
(* completion before the next event is taken, so each action below is one  *)
(* event-loop task together with its microtasks.                           *)
(*                                                                         *)
(* An activation that has settled is kept for one state, in which what it  *)
(* returned or threw and what it left behind can be read, and is then      *)
(* discarded (action Discard) before the next event: the timers and the    *)
(* requests it leaves behind call back into promises that are settled, and *)
(* change nothing the page can see.                                        *)
(***************************************************************************)
EXTENDS Integers, Sequences, FiniteSets, TLC

VARIABLES elements, selectedTargetLang, isTranslating, call, initialized,
          started, finished, probe, currentAPIIndex, direct

vars == <<elements, selectedTargetLang, isTranslating, call, initialized,
          started, finished, probe, currentAPIIndex, direct>>

-----------------------------------------------------------------------------
(* Bounds of the model *)

\* a typed text has at most this many runs of equal characters
MaxRuns == 1

\* the user clicks only the first MaxLangButton language buttons
MaxLangButton == 2

\* resolution of the clock: ticks in one TIMEOUT_MS
TicksPerTimeout == 2

\* no translation is started once this many have settled
MaxTranslations == 1

-----------------------------------------------------------------------------
(* CONFIG *)

MIN_CHARS == 1
MAX_CHARS == 5000
TIMEOUT_MS == 10000

APIS ==
    << [name |-> "Lingva Translate", endpoint |-> "https://lingva.ml/api/v1", type |-> "lingva"],
       [name |-> "MyMemory", endpoint |-> "https://api.mymemory.translated.net/get", type |-> "mymemory"],
       [name |-> "LibreTranslate", endpoint |-> "https://libretranslate.com/translate", type |-> "libretranslate"] >>

LANGUAGES ==
    [ en |-> [name |-> "English", rtl |-> FALSE, code |-> "en"],
      ur |-> [name |-> "Urdu",    rtl |-> TRUE,  code |-> "ur"],
      hi |-> [name |-> "Hindi",   rtl |-> FALSE, code |-> "hi"],
      fr |-> [name |-> "French",  rtl |-> FALSE, code |-> "fr"] ]

\* the language buttons of the page, in document order
langButtons == << "en", "ur", "hi", "fr" >>

\* the value of selectedTargetLang before a language is selected
Null == "null"

-----------------------------------------------------------------------------
(* Strings *)

Space == " "
Chars == { Space, "a" }
RunLens == { MIN_CHARS, MAX_CHARS + 1 }

Run(ch, n) == [ch |-> ch, n |-> n]

RECURSIVE TextsOfRuns(_)
TextsOfRuns(k) ==
    IF k = 0 THEN { << >> }
    ELSE LET shorter == TextsOfRuns(k - 1)
         IN  { Append(t, Run(ch, n)) :
                 t \in shorter, ch \in Chars, n \in RunLens }

\* every string of at most MaxRuns runs
Texts ==
    { t \in UNION { TextsOfRuns(k) : k \in 0..MaxRuns } :
        \A r \in 1..(Len(t) - 1) : t[r].ch # t[r + 1].ch }

\* String.prototype.length
RECURSIVE Length(_)
Length(t) == IF t = << >> THEN 0 ELSE Head(t).n + Length(Tail(t))

RECURSIVE TrimStart(_)
TrimStart(t) ==
    IF t # << >> /\ Head(t).ch = Space THEN TrimStart(Tail(t)) ELSE t

RECURSIVE TrimEnd(_)
TrimEnd(t) ==
    IF t # << >> /\ t[Len(t)].ch = Space
    THEN TrimEnd(SubSeq(t, 1, Len(t) - 1))
    ELSE t

\* String.prototype.trim
Trim(t) == TrimEnd(TrimStart(t))

\* encodeURIComponent: a space becomes the three characters %20
encodeURIComponent(t) ==
    [ r \in DOMAIN t |->
        IF t[r].ch = Space THEN Run("%20", t[r].n) ELSE t[r] ]

\* what the server reads back from an encoded path or query component
decodeURIComponent(t) ==
    [ r \in DOMAIN t |->
        IF t[r].ch = "%20" THEN Run(Space, t[r].n) ELSE t[r] ]

-----------------------------------------------------------------------------
(* Values of response fields *)

\* A field of a response body holds undefined (the field is absent) or a
\* string; the non-empty string a provider sends is its translation of the
\* text it was asked for into the language it was asked for.
Undefined == [type |-> "undefined", by |-> "", of |-> << >>, to |-> ""]
EmptyString == [type |-> "string", by |-> "", of |-> << >>, to |-> ""]
Translation(provider, text, code) ==
    [type |-> "string", by |-> provider, of |-> text, to |-> code]

\* JavaScript truthiness: undefined and the empty string are falsy
Truthy(v) == v.type = "string" /\ v # EmptyString

-----------------------------------------------------------------------------
(* fetch: requests and responses *)

\* what an adapter hands to fetch()
Request(method, endpoint, via, source, target, text, format) ==
    [method |-> method, endpoint |-> endpoint, via |-> via, source |-> source,
     target |-> target, text |-> text, format |-> format]

NoRequest == Request("", "", "", "", "", << >>, "")

\* the paths the three adapters read in a response body
FieldPaths == << "translation", "responseData.translatedText", "translatedText" >>

\* a body holds one field (or, with path "", none)
Body(path, value) == [path |-> path, value |-> value]

\* data.path, undefined when the body has no such field
Get(body, path) == IF body.path = path THEN body.value ELSE Undefined

\* how a fetch() and the response.json() after it can end: the transport fails;
\* or a response arrives with a status, whose body is not JSON or is an object
Response(transport, status, parses, body) ==
    [transport |-> transport, status |-> status,
     ok |-> (transport = "ok" /\ status \in 200..299),
     parses |-> parses, body |-> body]

OutcomeKinds == { "neterr", "http", "badjson", "nofield", "empty", "text" }

\* the ways the requests of the page end
PageOutcomes == OutcomeKinds \ { "badjson" }

\* the text a provider finds in the request it received
RequestedText(req) ==
    IF req.via = "json" THEN req.text ELSE decodeURIComponent(req.text)

\* the response of each kind that provider j gives to request req
ResponseOf(kind, j, req) ==
    CASE kind = "neterr"  -> Response("failed", 0, FALSE, Body("", Undefined))
      [] kind = "http"    -> Response("ok", 500, TRUE, Body("", Undefined))
      [] kind = "badjson" -> Response("ok", 200, FALSE, Body("", Undefined))
      [] kind = "nofield" -> Response("ok", 200, TRUE, Body("", Undefined))
      [] kind = "empty"   -> Response("ok", 200, TRUE, Body(FieldPaths[j], EmptyString))
      [] kind = "text"    ->
           Response("ok", 200, TRUE,
                    Body(FieldPaths[j], Translation(APIS[j].name, RequestedText(req), req.target)))

-----------------------------------------------------------------------------
(* The adapters.  Each is the function from the request's arguments and the
   response fetch() delivers to the way the async function settles. *)

NoResult == [translatedText |-> Undefined, apiUsed |-> ""]

Return(value) == [kind |-> "return", value |-> value, message |-> ""]
Throw(message) == [kind |-> "throw", value |-> NoResult, message |-> message]

translateWithLingva(text, targetLang, response) ==
    LET api == APIS[1]
        data == response.body
    IN  IF response.transport # "ok" THEN Throw("Failed to fetch")
        ELSE IF ~response.ok THEN Throw("HTTP " \o ToString(response.status))
        ELSE IF ~response.parses THEN Throw("Unexpected token in JSON")
        ELSE IF ~Truthy(Get(data, "translation"))
             THEN Throw("No translation in response")
        ELSE Return([translatedText |-> Get(data, "translation"),
                     apiUsed |-> api.name])

LingvaRequest(text, targetLang) ==
    LET api == APIS[1]
        targetCode == LANGUAGES[targetLang].code
    IN  Request("GET", api.endpoint, "path", "auto", targetCode,
                encodeURIComponent(text), "")

\* translateWithMyMemory reading the field LibreTranslate sends
translateWithMyMemory_otherField(text, targetLang, response) ==
    LET api == APIS[2]
        data == response.body
    IN  IF response.transport # "ok" THEN Throw("Failed to fetch")
        ELSE IF ~response.ok THEN Throw("HTTP " \o ToString(response.status))
        ELSE IF ~response.parses THEN Throw("Unexpected token in JSON")
        ELSE IF ~Truthy(Get(data, "translatedText"))
             THEN Throw("No translation in response")
        ELSE Return([translatedText |-> Get(data, "translatedText"),
                     apiUsed |-> api.name])

translateWithMyMemory(text, targetLang, response) ==
    LET api == APIS[2]
        data == response.body
    IN  IF response.transport # "ok" THEN Throw("Failed to fetch")
        ELSE IF ~response.ok THEN Throw("HTTP " \o ToString(response.status))
        ELSE IF ~response.parses THEN Throw("Unexpected token in JSON")
        ELSE IF ~Truthy(Get(data, "responseData.translatedText"))
             THEN Throw("No translation in response")
        ELSE Return([translatedText |-> Get(data, "responseData.translatedText"),
                     apiUsed |-> api.name])

MyMemoryRequest(text, targetLang) ==
    LET api == APIS[2]
        targetCode == LANGUAGES[targetLang].code
    IN  Request("GET", api.endpoint, "query", "en", targetCode,
                encodeURIComponent(text), "")

translateWithLibreTranslate(text, targetLang, response) ==
    LET api == APIS[3]
        data == response.body
    IN  IF response.transport # "ok" THEN Throw("Failed to fetch")
        ELSE IF ~response.ok THEN Throw("HTTP " \o ToString(response.status))
        ELSE IF ~response.parses THEN Throw("Unexpected token in JSON")
        ELSE IF ~Truthy(Get(data, "translatedText"))
             THEN Throw("No translation in response")
        ELSE Return([translatedText |-> Get(data, "translatedText"),
                     apiUsed |-> api.name])

LibreTranslateRequest(text, targetLang) ==
    LET api == APIS[3]
        targetCode == LANGUAGES[targetLang].code
    IN  Request("POST", api.endpoint, "json", "en", targetCode, text, "text")

\* const apis = [translateWithLingva, translateWithMyMemory, translateWithLibreTranslate]
NumApis == Len(APIS)

AdapterRequest(j, text, targetLang) ==
    CASE j = 1 -> LingvaRequest(text, targetLang)
      [] j = 2 -> MyMemoryRequest(text, targetLang)
      [] j = 3 -> LibreTranslateRequest(text, targetLang)

AdapterSettles(j, text, targetLang, response) ==
    CASE j = 1 -> translateWithLingva(text, targetLang, response)
      [] j = 2 -> translateWithMyMemory(text, targetLang, response)
      [] j = 3 -> translateWithLibreTranslate(text, targetLang, response)

-----------------------------------------------------------------------------
(* translateText: one activation *)

Attempts == 1..NumApis

\* a timer made by setTimeout; left counts the ticks until it is due
NoTimer == [state |-> "none", left |-> 0]
\* setTimeout(f, ms)
setTimeout(ms) ==
    [state |-> "armed", left |-> (ms * TicksPerTimeout) \div TIMEOUT_MS]
\* clearTimeout(id): a timer that has fired stays fired
clearTimeout(timer) ==
    IF timer.state = "armed" THEN [state |-> "cleared", left |-> 0] ELSE timer

NoFetch == [state |-> "none", req |-> NoRequest]

\* the promise an adapter returns: pending, or settled the way the adapter
\* settled; afterAbort tells whether the attempt's controller had aborted by then
PendingPromise ==
    [kind |-> "pending", value |-> NoResult, message |-> "", afterAbort |-> FALSE]
SettledPromise(settled, aborted) ==
    [kind |-> settled.kind, value |-> settled.value, message |-> settled.message,
     afterAbort |-> aborted]

NoTranslation ==
    [translatedText |-> Undefined, apiUsed |-> "",
     detectedLanguage |-> Null, detectedConfidence |-> Null]

LogEntry(ev, api, message) == [ev |-> ev, api |-> api, message |-> message]

\* no activation: the state before translateText is first called
IdleCall ==
    [status |-> "idle", text |-> << >>, targetLang |-> Null, i |-> 0,
     log |-> << >>,
     fetch |-> [j \in Attempts |-> NoFetch],
     promise |-> [j \in Attempts |-> PendingPromise],
     timer |-> [j \in Attempts |-> NoTimer],
     aborted |-> [j \in Attempts |-> FALSE],
     result |-> NoTranslation, error |-> ""]

AllFailedMessage == "All translation APIs failed. Please try again later."

\* the body of the try block up to its await: the controller and its timer
\* are made and the adapter is called, which sends its request
BeginAttempt(c, j) ==
    [c EXCEPT !.i = j,
              !.log = Append(@, LogEntry("trying", j, APIS[j].name)),
              !.timer[j] = setTimeout(TIMEOUT_MS),
              !.fetch[j] = [state |-> "pending",
                            req |-> AdapterRequest(j, c.text, c.targetLang)]]

\* the call itself, up to the first await
translateText(text, targetLang) ==
    BeginAttempt([IdleCall EXCEPT !.status = "running", !.text = text,
                                  !.targetLang = targetLang], 1)

\* AttemptSucceeds naming the first provider whichever adapter answered
AttemptSucceeds_firstName(c, result) ==
    [c EXCEPT !.timer[c.i] = clearTimeout(@),
              !.log = Append(@, LogEntry("success", c.i, APIS[1].name)),
              !.status = "returned",
              !.result = [translatedText |-> result.translatedText,
                          apiUsed |-> APIS[1].name,
                          detectedLanguage |-> Null,
                          detectedConfidence |-> Null]]

\* after the await, when the adapter's promise won the race with a value
AttemptSucceeds(c, result) ==
    [c EXCEPT !.timer[c.i] = clearTimeout(@),
              !.log = Append(@, LogEntry("success", c.i, result.apiUsed)),
              !.status = "returned",
              !.result = [translatedText |-> result.translatedText,
                          apiUsed |-> result.apiUsed,
                          detectedLanguage |-> Null,
                          detectedConfidence |-> Null]]

\* AttemptFails rethrowing the last adapter's own error
AttemptFails_rethrow(c, message) ==
    LET warned == [c EXCEPT !.log = Append(@, LogEntry("failed", c.i, message))]
    IN  IF c.i = NumApis
        THEN [warned EXCEPT !.status = "thrown", !.error = message]
        ELSE BeginAttempt(warned, c.i + 1)

\* AttemptFails giving up one adapter early
AttemptFails_early(c, message) ==
    LET warned == [c EXCEPT !.log = Append(@, LogEntry("failed", c.i, message))]
    IN  IF c.i >= NumApis - 1
        THEN [warned EXCEPT !.status = "thrown", !.error = AllFailedMessage]
        ELSE BeginAttempt(warned, c.i + 1)

\* AttemptFails going on with the last adapter instead of the next
AttemptFails_skip(c, message) ==
    LET warned == [c EXCEPT !.log = Append(@, LogEntry("failed", c.i, message))]
    IN  IF c.i = NumApis
        THEN [warned EXCEPT !.status = "thrown", !.error = AllFailedMessage]
        ELSE BeginAttempt(warned, NumApis)

\* the catch block, and the next turn of the loop when there is one
AttemptFails(c, message) ==
    LET warned == [c EXCEPT !.log = Append(@, LogEntry("failed", c.i, message))]
    IN  IF c.i = NumApis
        THEN [warned EXCEPT !.status = "thrown", !.error = AllFailedMessage]
        ELSE BeginAttempt(warned, c.i + 1)

\* the race of attempt j is still undecided
Racing(c, j) == c.status = "running" /\ c.i = j

\* FetchSettled settling the current attempt whichever attempt the response
\* belongs to
FetchSettled_anyAttempt(c, j, response) ==
    LET settled == AdapterSettles(j, c.text, c.targetLang, response)
        done == [c EXCEPT !.fetch[j].state = "done",
                          !.promise[j] = SettledPromise(settled, c.aborted[j])]
    IN  IF c.status # "running" THEN done
        ELSE IF settled.kind = "return" THEN AttemptSucceeds(done, settled.value)
        ELSE AttemptFails(done, settled.message)

\* fetch j ends with the response; the adapter settles, and with it the race
\* if the timeout has not settled it before
FetchSettled(c, j, response) ==
    LET settled == AdapterSettles(j, c.text, c.targetLang, response)
        done == [c EXCEPT !.fetch[j].state = "done",
                          !.promise[j] = SettledPromise(settled, c.aborted[j])]
    IN  IF ~Racing(c, j) THEN done
        ELSE IF settled.kind = "return" THEN AttemptSucceeds(done, settled.value)
        ELSE AttemptFails(done, settled.message)

\* TimerFired without the abort listener that rejects the race
TimerFired_noReject(c, j) ==
    [c EXCEPT !.timer[j] = [state |-> "fired", left |-> 0],
              !.aborted[j] = TRUE]

\* the timer of attempt j fires: controller.abort(), whose listener rejects
\* the second promise of the race
TimerFired(c, j) ==
    LET fired == [c EXCEPT !.timer[j] = [state |-> "fired", left |-> 0],
                           !.aborted[j] = TRUE]
    IN  IF Racing(c, j) THEN AttemptFails(fired, "Request timeout") ELSE fired

\* one tick passes for every armed timer
Ticked(c) ==
    [c EXCEPT !.timer = [j \in Attempts |->
        IF c.timer[j].state = "armed"
        THEN [c.timer[j] EXCEPT !.left = @ - 1] ELSE c.timer[j]]]

Armed(c) == { j \in Attempts : c.timer[j].state = "armed" }
Due(c) == { j \in Armed(c) : c.timer[j].left = 0 }
Pending(c) == { j \in Attempts : c.fetch[j].state = "pending" }

-----------------------------------------------------------------------------
(* The page *)

States == { "loading", "empty", "error", "output" }

NoLabel == [poweredBy |-> "", translatedTo |-> ""]

\* the elements as the document has them when the script starts
LoadedPage ==
    [inputValue |-> << >>,
     charCount |-> [text |-> 0, color |-> ""],
     translateBtnDisabled |-> FALSE,
     copyBtnDisabled |-> FALSE,
     shown |-> {},
     outputText |-> EmptyString,
     rtl |-> FALSE,
     errorText |-> "",
     detectedLang |-> NoLabel,
     active |-> {}]

\* showState without the removal of 'show' from the other states
showState_noHide(el, state) ==
    IF state \in States THEN [el EXCEPT !.shown = @ \cup { state }] ELSE el

showState(el, state) ==
    LET hidden == [el EXCEPT !.shown = {}]
    IN  IF state \in States THEN [hidden EXCEPT !.shown = @ \cup { state }]
        ELSE hidden

showError(el, message) ==
    [showState([el EXCEPT !.errorText = message], "error")
        EXCEPT !.copyBtnDisabled = TRUE]

updateCharCounter(el, count) ==
    [el EXCEPT !.charCount =
        [text |-> count,
         color |-> IF count * 10 > MAX_CHARS * 9
                   THEN "var(--error-color)" ELSE "var(--text-muted)"]]

applyRTL(el, langCode) ==
    LET isRTL == IF langCode \in DOMAIN LANGUAGES
                 THEN LANGUAGES[langCode].rtl ELSE FALSE
    IN  [el EXCEPT !.rtl = isRTL]

updateLanguageButtons(el, langCode) ==
    [el EXCEPT !.active =
        { b \in DOMAIN langButtons : langButtons[b] = langCode }]

-----------------------------------------------------------------------------
(* Event handlers *)

\* InputHandler leaving the copy button as it is when it resets the output
InputHandler_keepCopy(el, v) ==
    LET counted == updateCharCounter([el EXCEPT !.inputValue = v], Length(v))
    IN  IF "output" \in el.shown THEN showState(counted, "empty") ELSE counted

\* the 'input' listener of the text area, the value being v
InputHandler(el, v) ==
    LET counted == updateCharCounter([el EXCEPT !.inputValue = v], Length(v))
    IN  IF "output" \in el.shown
        THEN [showState(counted, "empty") EXCEPT !.copyBtnDisabled = TRUE]
        ELSE counted

\* the 'click' listener of the clear button
ClearHandler(el) ==
    [showState(updateCharCounter([el EXCEPT !.inputValue = << >>], 0), "empty")
        EXCEPT !.copyBtnDisabled = TRUE, !.detectedLang = NoLabel]

\* the 'click' listener of language button b: the page after it
LangHandler(el, b) ==
    LET langCode == langButtons[b]
        hasText == Length(Trim(el.inputValue)) >= MIN_CHARS
    IN  [updateLanguageButtons(el, langCode)
            EXCEPT !.translateBtnDisabled = ~hasText]

\* the part of the translate handler after the await, translateText having
\* returned result
Displayed(el, result, lang) ==
    LET apiInfo == IF result.apiUsed # "" THEN result.apiUsed ELSE "Translation API"
        written == [el EXCEPT !.outputText = result.translatedText]
    IN  [showState(applyRTL(written, lang), "output")
            EXCEPT !.copyBtnDisabled = FALSE,
                   !.detectedLang = [poweredBy |-> apiInfo,
                                     translatedTo |-> LANGUAGES[lang].name],
                   !.translateBtnDisabled = FALSE]

\* Failed showing a message of its own instead of the error's
Failed_ownMessage(el, message) ==
    [showError(el, "Translation failed.") EXCEPT !.translateBtnDisabled = FALSE]

\* the catch and finally blocks, translateText having thrown
Failed(el, message) ==
    [showError(el, message) EXCEPT !.translateBtnDisabled = FALSE]

\* the continuation of the translate handler once the activation c has
\* settled; nothing while it is running
Continue(c) ==
    IF c.status = "returned"
    THEN /\ elements' = Displayed(elements, c.result, selectedTargetLang)
         /\ isTranslating' = FALSE
         /\ finished' = finished + 1
    ELSE IF c.status = "thrown"
    THEN /\ elements' = Failed(elements, c.error)
         /\ isTranslating' = FALSE
         /\ finished' = finished + 1
    ELSE UNCHANGED <<elements, isTranslating, finished>>

\* TranslateHandler without the check of isTranslating
TranslateHandler_noGuard ==
    LET inputText == Trim(elements.inputValue)
    IN  IF inputText = << >>
        THEN /\ elements' = showError(elements, "Please enter some text to translate.")
             /\ UNCHANGED <<isTranslating, call, started>>
        ELSE IF selectedTargetLang = Null
        THEN /\ elements' = showError(elements, "Please select a target language.")
             /\ UNCHANGED <<isTranslating, call, started>>
        ELSE /\ finished < MaxTranslations
             /\ isTranslating' = TRUE
             /\ started' = started + 1
             /\ elements' = showState([elements EXCEPT !.translateBtnDisabled = TRUE,
                                                       !.copyBtnDisabled = TRUE],
                                      "loading")
             /\ call' = translateText(inputText, selectedTargetLang)

\* the 'click' listener of the translate button
TranslateHandler ==
    LET inputText == Trim(elements.inputValue)
    IN  IF inputText = << >>
        THEN /\ elements' = showError(elements, "Please enter some text to translate.")
             /\ UNCHANGED <<isTranslating, call, started>>
        ELSE IF Length(inputText) < MIN_CHARS
        THEN /\ elements' = showError(elements, "Text must be at least 1 character(s).")
             /\ UNCHANGED <<isTranslating, call, started>>
        ELSE IF selectedTargetLang = Null
        THEN /\ elements' = showError(elements, "Please select a target language.")
             /\ UNCHANGED <<isTranslating, call, started>>
        ELSE IF isTranslating
        THEN UNCHANGED <<elements, isTranslating, call, started>>
        ELSE /\ finished < MaxTranslations
             /\ isTranslating' = TRUE
             /\ started' = started + 1
             /\ elements' = showState([elements EXCEPT !.translateBtnDisabled = TRUE,
                                                       !.copyBtnDisabled = TRUE],
                                      "loading")
             /\ call' = translateText(inputText, selectedTargetLang)

-----------------------------------------------------------------------------
(* The adapters on their own: an adapter is called with a text and a language
   and fetch() delivers a response of any shape *)

ProbeTexts == { Trim(t) : t \in Texts } \ { << >> }

FieldValues == { Undefined, EmptyString, Translation("remote", << Run("a", 1) >>, "xx") }

Responses ==
    { Response(transport, status, parses, Body(path, value)) :
        transport \in { "ok", "failed" }, status \in { 200, 500 },
        parses \in BOOLEAN,
        path \in { FieldPaths[j] : j \in DOMAIN FieldPaths },
        value \in FieldValues }

NoSettle == [kind |-> "none", value |-> NoResult, message |-> ""]

NoProbe ==
    [j |-> 0, text |-> << >>, targetLang |-> Null,
     response |-> Response("failed", 0, FALSE, Body("", Undefined)),
     settled |-> NoSettle]

-----------------------------------------------------------------------------
(* Actions *)

\* the two activations of translateText that are called directly
Callers == 1..2

\* what a provider does with every request it gets: the way its response ends,
\* and whether the response comes only after the attempt's timeout
MockKinds == { "http", "text" }
Mocks == [Attempts -> [kind : MockKinds, late : BOOLEAN]]
NoMock == [j \in Attempts |-> [kind |-> "none", late |-> FALSE]]

\* the arguments of the direct calls
CallTexts == ProbeTexts
CallLangs == { langButtons[b] : b \in 1..MaxLangButton }

\* no direct call
NoDirect ==
    [mock |-> NoMock, calls |-> [k \in Callers |-> IdleCall], overlapped |-> FALSE]

Init ==
    /\ elements = LoadedPage
    /\ selectedTargetLang = Null
    /\ isTranslating = FALSE
    /\ call = IdleCall
    /\ initialized = FALSE
    /\ started = 0
    /\ finished = 0
    /\ probe = NoProbe
    /\ currentAPIIndex = 0
    /\ direct = NoDirect

Settled(c) == c.status \in { "returned", "thrown" }

\* the page takes events: it is initialized and no settled activation waits
\* to be discarded
Ready == initialized /\ ~Settled(call)

\* DOMContentLoaded
initializeApp ==
    /\ ~initialized
    /\ initialized' = TRUE
    /\ LET set == [updateCharCounter(showState(elements, "empty"), 0)
                      EXCEPT !.translateBtnDisabled = TRUE,
                             !.copyBtnDisabled = TRUE]
       IN  IF Len(langButtons) > 0
           THEN /\ selectedTargetLang' = langButtons[1]
                /\ elements' = LangHandler(set, 1)
           ELSE /\ elements' = set
                /\ UNCHANGED selectedTargetLang
    /\ UNCHANGED <<isTranslating, call, started, finished, probe,
                   currentAPIIndex, direct>>

\* the user edits the text area
Input(v) ==
    /\ Ready
    /\ v # elements.inputValue
    /\ elements' = InputHandler(elements, v)
    /\ UNCHANGED <<selectedTargetLang, isTranslating, call, initialized, started, finished, probe,
                   currentAPIIndex, direct>>

Clear ==
    /\ Ready
    /\ elements' = ClearHandler(elements)
    /\ UNCHANGED <<selectedTargetLang, isTranslating, call, initialized, started, finished, probe,
                   currentAPIIndex, direct>>

LangClick(b) ==
    /\ Ready
    /\ selectedTargetLang' = langButtons[b]
    /\ elements' = LangHandler(elements, b)
    /\ UNCHANGED <<isTranslating, call, initialized, started, finished, probe,
                   currentAPIIndex, direct>>

\* a click on the translate button, which a disabled button does not take
TranslateClick ==
    /\ Ready
    /\ ~elements.translateBtnDisabled
    /\ TranslateHandler
    /\ UNCHANGED <<selectedTargetLang, initialized, finished, probe,
                   currentAPIIndex, direct>>

\* Ctrl+Enter in the text area
CtrlEnter ==
    /\ Ready
    /\ IF ~elements.translateBtnDisabled
       THEN TranslateHandler
       ELSE UNCHANGED <<elements, isTranslating, call, started>>
    /\ UNCHANGED <<selectedTargetLang, initialized, finished, probe,
                   currentAPIIndex, direct>>

\* the request of attempt j ends, in one of the ways a request can
FetchSettles(j, kind) ==
    /\ ~Settled(call)
    /\ call.fetch[j].state = "pending"
    /\ call' = FetchSettled(call, j, ResponseOf(kind, j, call.fetch[j].req))
    /\ Continue(call')
    /\ UNCHANGED <<selectedTargetLang, initialized, started, probe,
                   currentAPIIndex, direct>>

\* a due timer fires
TimerFires(j) ==
    /\ ~Settled(call)
    /\ j \in Due(call)
    /\ call' = TimerFired(call, j)
    /\ Continue(call')
    /\ UNCHANGED <<selectedTargetLang, initialized, started, probe,
                   currentAPIIndex, direct>>

\* time passes, no timer being due
Tick ==
    /\ ~Settled(call)
    /\ Armed(call) # {}
    /\ Due(call) = {}
    /\ call' = Ticked(call)
    /\ UNCHANGED <<elements, selectedTargetLang, isTranslating, initialized, started,
                   finished, probe,
                   currentAPIIndex, direct>>

\* the settled activation is discarded
Discard ==
    /\ Settled(call)
    /\ call' = IdleCall
    /\ UNCHANGED <<elements, selectedTargetLang, isTranslating, initialized, started,
                   finished, probe,
                   currentAPIIndex, direct>>

\* an adapter is called and its request is answered
InitAdapters ==
    /\ elements = LoadedPage
    /\ selectedTargetLang = Null
    /\ isTranslating = FALSE
    /\ call = IdleCall
    /\ initialized = FALSE
    /\ started = 0
    /\ finished = 0
    /\ currentAPIIndex = 0
    /\ direct = NoDirect
    /\ probe \in { [NoProbe EXCEPT !.j = j, !.text = text, !.targetLang = lang,
                                   !.response = response] :
                     j \in Attempts, text \in ProbeTexts,
                     lang \in DOMAIN LANGUAGES, response \in Responses }

AdapterCall ==
    /\ probe.settled = NoSettle
    /\ probe' = [probe EXCEPT !.settled =
                    AdapterSettles(probe.j, probe.text, probe.targetLang,
                                   probe.response)]
    /\ UNCHANGED <<elements, selectedTargetLang, isTranslating, call, initialized,
                   started, finished, currentAPIIndex, direct>>

NextAdapters == AdapterCall

SpecAdapters == InitAdapters /\ [][NextAdapters]_vars

Next ==
    \/ initializeApp
    \/ \E v \in Texts : Input(v)
    \/ Clear
    \/ \E b \in 1..MaxLangButton : LangClick(b)
    \/ TranslateClick
    \/ CtrlEnter
    \/ \E j \in Attempts, kind \in PageOutcomes : FetchSettles(j, kind)
    \/ \E j \in Attempts : TimerFires(j)
    \/ Tick
    \/ Discard

Spec == Init /\ [][Next]_vars

\* the event loop runs a timer that is due, and time passes
TimersRun == Tick \/ \E j \in Attempts : TimerFires(j)

SpecLive == Spec /\ WF_vars(TimersRun)

------------------------------------------------------------------------------
(* translateText called twice against providers that answer every request
   the same way *)

InitCalls ==
    /\ elements = LoadedPage
    /\ selectedTargetLang = Null
    /\ isTranslating \in BOOLEAN
    /\ call = IdleCall
    /\ initialized = FALSE
    /\ started = 0
    /\ finished = 0
    /\ probe = NoProbe
    /\ currentAPIIndex = 0
    /\ direct \in { [NoDirect EXCEPT !.mock = mock] : mock \in Mocks }

page == <<elements, selectedTargetLang, isTranslating, call, initialized,
          started, finished, probe, currentAPIIndex>>

\* translateText(text, targetLang) is called; the second call may come while
\* the first is running
DirectCall(k, text, targetLang) ==
    /\ direct.calls[k].status = "idle"
    /\ k > 1 => direct.calls[k - 1].status # "idle"
    /\ direct' = [direct EXCEPT
                    !.calls[k] = translateText(text, targetLang),
                    !.overlapped =
                        @ \/ \E o \in Callers : direct.calls[o].status = "running"]
    /\ UNCHANGED page

\* DirectFetchSettles answering a request with the response to the request
\* the other activation sent
DirectFetchSettles_crossed(k, j) ==
    LET c == direct.calls[k]
        o == direct.calls[3 - k]
    IN  /\ c.fetch[j].state = "pending"
        /\ direct.mock[j].late => c.aborted[j]
        /\ direct' = [direct EXCEPT !.calls[k] =
                        FetchSettled(c, j,
                            ResponseOf(direct.mock[j].kind, j,
                                       IF o.fetch[j].state = "none"
                                       THEN c.fetch[j].req ELSE o.fetch[j].req))]
        /\ UNCHANGED page

\* provider j answers the request of activation k, a late provider only
\* after the attempt's timeout
DirectFetchSettles(k, j) ==
    LET c == direct.calls[k]
    IN  /\ c.fetch[j].state = "pending"
        /\ direct.mock[j].late => c.aborted[j]
        /\ direct' = [direct EXCEPT !.calls[k] =
                        FetchSettled(c, j,
                            ResponseOf(direct.mock[j].kind, j, c.fetch[j].req))]
        /\ UNCHANGED page

\* a due timer of activation k fires
DirectTimerFires(k, j) ==
    /\ j \in Due(direct.calls[k])
    /\ direct' = [direct EXCEPT !.calls[k] = TimerFired(@, j)]
    /\ UNCHANGED page

\* time passes, no timer being due and no prompt response being on its way
DirectTick ==
    /\ \E k \in Callers : Armed(direct.calls[k]) # {}
    /\ \A k \in Callers : Due(direct.calls[k]) = {}
    /\ \A k \in Callers : \A j \in Pending(direct.calls[k]) : direct.mock[j].late
    /\ direct' = [direct EXCEPT !.calls = [k \in Callers |-> Ticked(@[k])]]
    /\ UNCHANGED page

NextCalls ==
    \/ \E k \in Callers, text \in CallTexts, targetLang \in CallLangs :
          DirectCall(k, text, targetLang)
    \/ \E k \in Callers, j \in Attempts : DirectFetchSettles(k, j)
    \/ \E k \in Callers, j \in Attempts : DirectTimerFires(k, j)
    \/ DirectTick

SpecCalls == InitCalls /\ [][NextCalls]_vars

\* the activation run to its end with nothing else going on: provider c.i
\* answers at once, or not before the timeout
RECURSIVE RunAlone(_, _)
RunAlone(c, mock) ==
    IF c.status # "running" THEN c
    ELSE IF mock[c.i].late THEN RunAlone(TimerFired(c, c.i), mock)
    ELSE RunAlone(FetchSettled(c, c.i,
                      ResponseOf(mock[c.i].kind, c.i, c.fetch[c.i].req)), mock)

\* what the caller of translateText gets
Outcome(c) == [status |-> c.status, result |-> c.result, error |-> c.error]

-----------------------------------------------------------------------------
(* What happened to the attempts of an activation *)

\* the adapter of attempt j rejected before the attempt's timeout
AdapterFailed(c, j) ==
    c.promise[j].kind = "throw" /\ ~c.promise[j].afterAbort

\* the timeout of attempt j came before its adapter settled
TimedOut(c, j) ==
    c.aborted[j] /\ (c.promise[j].kind = "pending" \/ c.promise[j].afterAbort)

AttemptFailed(c, j) == AdapterFailed(c, j) \/ TimedOut(c, j)

\* the adapter of attempt j fulfilled before the attempt's timeout
SucceededInTime(c, j) ==
    c.promise[j].kind = "return" /\ ~c.promise[j].afterAbort

Invoked(c) == { j \in Attempts : c.fetch[j].state # "none" }

IsTrying(e) == e.ev = "trying"
Tried(c) == SelectSeq(c.log, IsTrying)

-----------------------------------------------------------------------------
(* Properties *)

\* C1: when every adapter before i has failed and adapter i succeeds within its
\* timeout, translateText returns adapter i's translated text under adapter
\* i's provider name, and no adapter after i has been invoked.
C1_FirstSuccessWins ==
    \A i \in Attempts :
        ( /\ \A j \in 1..(i - 1) : AttemptFailed(call, j)
          /\ SucceededInTime(call, i) )
        => /\ call.status = "returned"
           /\ call.result.translatedText = call.promise[i].value.translatedText
           /\ call.result.translatedText.by = APIS[i].name
           /\ call.result.apiUsed = APIS[i].name
           /\ \A k \in (i + 1)..NumApis : k \notin Invoked(call)

\* the third adapter answers after the first timed out and the second failed
C1_Witness ==
    /\ TimedOut(call, 1)
    /\ AdapterFailed(call, 2)
    /\ SucceededInTime(call, 3)
    /\ call.result.apiUsed = APIS[3].name

\* C2: when all three attempts have failed, whatever the reasons, the call has
\* thrown the one aggregate error, whose message is not empty, and has
\* returned nothing.
C2_AllFailAggregate ==
    (\A j \in Attempts : AttemptFailed(call, j))
    => /\ call.status = "thrown"
       /\ call.error = AllFailedMessage
       /\ call.error # ""
       /\ call.result = NoTranslation

\* a timeout, a bad status and a missing field, in one call
C2_Witness ==
    /\ call.status = "thrown"
    /\ TimedOut(call, 1)
    /\ AdapterFailed(call, 2) /\ call.promise[2].message = "HTTP 500"
    /\ AdapterFailed(call, 3) /\ call.promise[3].message = "No translation in response"

\* C3: an error reaches the caller only when every adapter has been invoked
\* and has failed, and the error is the aggregate one, never an adapter's own
\* error or the timeout error.
C3_OnlyAggregateSurfaces ==
    /\ call.error # "" => call.status = "thrown"
    /\ call.status = "thrown"
       => /\ \A j \in Attempts : j \in Invoked(call) /\ AttemptFailed(call, j)
          /\ call.error = AllFailedMessage
          /\ \A j \in Attempts : call.error # call.promise[j].message
          /\ call.error # "Request timeout"
          /\ elements.errorText = AllFailedMessage

\* three transport failures
C3_Witness ==
    /\ call.status = "thrown"
    /\ \A j \in Attempts :
         AdapterFailed(call, j) /\ call.promise[j].message = "Failed to fetch"

\* C4: an attempt still undecided when its timer fires is given up as failed
\* with the timeout error and the call goes on to the next adapter (or throws
\* after the last); what the timed-out adapter answers later is not returned.
C4_TimeoutFallsBack ==
    \A j \in Attempts :
        /\ Racing(call, j) => call.timer[j].state = "armed"
        /\ TimedOut(call, j)
           => /\ \E n \in DOMAIN call.log :
                    call.log[n] = LogEntry("failed", j, "Request timeout")
              /\ j < NumApis => (j + 1) \in Invoked(call)
              /\ j = NumApis => call.status = "thrown"
              /\ call.status = "returned"
                 => /\ call.result.apiUsed # APIS[j].name
                    /\ call.result.translatedText.by # APIS[j].name

\* the first adapter answers with a translation after its timeout, and the
\* call returns the second adapter's
C4_Witness ==
    /\ TimedOut(call, 1)
    /\ call.promise[1].kind = "return"
    /\ call.status = "returned"
    /\ call.result.apiUsed = APIS[2].name

\* C5: once the timeout of an attempt has fired, the request of that attempt
\* is no longer pending.
C5_TimeoutAbortsRequest ==
    \A j \in Attempts :
        call.timer[j].state = "fired" => call.fetch[j].state # "pending"

\* C6: at most one request of a call is pending at any time.
C6_AtMostOneInFlight == Cardinality(Pending(call)) <= 1

\* C7: the adapters are tried in the order 1, 2, 3, each at most once, the
\* ones invoked are the ones tried, each sends its request to its own
\* endpoint, and adapter i+1 is tried right after the failure of adapter i
\* was recorded.
C7_FixedOrderOnce ==
    /\ \A n \in DOMAIN Tried(call) : Tried(call)[n].api = n
    /\ Invoked(call) = 1..Len(Tried(call))
    /\ \A j \in Invoked(call) : call.fetch[j].req.endpoint = APIS[j].endpoint
    /\ \A n \in DOMAIN call.log :
         IsTrying(call.log[n])
         => IF call.log[n].api = 1 THEN n = 1
            ELSE /\ n > 1
                 /\ call.log[n - 1].ev = "failed"
                 /\ call.log[n - 1].api = call.log[n].api - 1

\* all three adapters were tried and the last one answered
C7_Witness ==
    /\ Len(Tried(call)) = NumApis
    /\ call.status = "returned"
    /\ Len(call.log) = 2 * NumApis

\* C8: at most one translateText started by the page is in progress, and
\* isTranslating is true exactly while it is: from before the call until it
\* settles.
C8_OneTranslationAtATime ==
    /\ started - finished \in { 0, 1 }
    /\ isTranslating <=> (started - finished = 1)
    /\ isTranslating <=> (call.status = "running")

\* a translation is in progress and the translate button takes clicks again,
\* with a text to translate in the text area
C8_Witness ==
    /\ isTranslating
    /\ ~elements.translateBtnDisabled
    /\ Trim(elements.inputValue) # << >>
    /\ call.status = "running"

\* C9: the text the page passes to translateText has between MIN_CHARS and
\* MAX_CHARS characters when trimmed, and the language is one of LANGUAGES.
C9_ValidArguments ==
    call.status # "idle"
    => /\ Length(Trim(call.text)) \in MIN_CHARS..MAX_CHARS
       /\ call.targetLang \in DOMAIN LANGUAGES

\* the adapter called on the response
ProbeField == Get(probe.response.body, FieldPaths[probe.j])
ProbeReturns(value) ==
    probe.settled =
        Return([translatedText |-> value, apiUsed |-> APIS[probe.j].name])

\* C10 as stated: an adapter fails exactly when the transport fails, the
\* status is not a success, or the body lacks the adapter's field, and
\* otherwise returns the field's value under its own provider name.
C10_FailsExactlyWhenFieldAbsent ==
    probe.settled # NoSettle
    => LET fails == \/ probe.response.transport # "ok"
                    \/ ~probe.response.ok
                    \/ ~probe.response.parses
                    \/ ProbeField = Undefined
       IN  /\ probe.settled.kind = "throw" <=> fails
           /\ ~fails => ProbeReturns(ProbeField)

\* C10 amended: an adapter fails exactly when the transport fails, the status
\* is not a success, or the body lacks the adapter's field or holds the empty
\* string in it, and otherwise returns the field's value under its own
\* provider name.
C10_FailsExactlyWhenFieldFalsy ==
    probe.settled # NoSettle
    => LET fails == \/ probe.response.transport # "ok"
                    \/ ~probe.response.ok
                    \/ ~probe.response.parses
                    \/ ~Truthy(ProbeField)
       IN  /\ probe.settled.kind = "throw" <=> fails
           /\ ~fails => ProbeReturns(ProbeField)

\* a success response whose field is the empty string makes the adapter fail
C10_Witness ==
    /\ probe.settled.kind = "throw"
    /\ probe.response.ok /\ probe.response.parses
    /\ ProbeField = EmptyString

\* C11: the request adapter C sends is a POST whose JSON body is
\* {q: text, source: "auto", target: the language's code, format: "text"}.
C11_LibreRequestBody ==
    3 \in Invoked(call)
    => call.fetch[3].req =
         Request("POST", APIS[3].endpoint, "json", "auto",
                 LANGUAGES[call.targetLang].code, call.text, "text")

\* C14: once initializeApp has run, exactly one of the states empty, loading,
\* error and output is shown.
C14_OneStateShown ==
    initialized => \E state \in States : elements.shown = { state }

\* a translation is displayed after one was started
C14_Witness ==
    /\ initialized
    /\ elements.shown = { "output" }
    /\ finished = 1

\* C15: while a translation is in progress the translate button is disabled.
C15_ButtonDisabledWhileTranslating ==
    isTranslating => elements.translateBtnDisabled

\* C18: when a call has settled, no timer it armed is still pending.
C18_NoTimerLeftArmed ==
    Settled(call) => Armed(call) = {}

\* C19: while a translation is in progress the loading state is the one shown.
C19_LoadingWhileTranslating ==
    isTranslating => elements.shown = { "loading" }

\* C20: when the output state is shown, the translation displayed was made
\* from the text now in the text area.
C20_OutputOfCurrentInput ==
    "output" \in elements.shown
    => elements.outputText.of = Trim(elements.inputValue)

C16_EventuallySettles ==
    /\ isTranslating ~> ~isTranslating
    /\ [](Settled(call)
          => /\ ~isTranslating
             /\ Len(Tried(call)) <= NumApis
             /\ call.status = "returned" => elements.shown = { "output" }
             /\ call.status = "thrown" => elements.shown = { "error" })

\* the translation has ended although no provider ever responded
C16_Witness ==
    /\ call.status = "thrown"
    /\ \A j \in Attempts : call.aborted[j] /\ call.fetch[j].state = "pending"
    /\ ~isTranslating
    /\ elements.shown = { "error" }

\* C12: two calls of translateText with the same text and target language,
\* against providers that answer both calls the same way, have the same
\* outcome: the same translated text under the same provider name, or the same
\* aggregate error.
C12_SameInputsSameOutcome ==
    LET c1 == direct.calls[1]
        c2 == direct.calls[2]
    IN  /\ Settled(c1) /\ Settled(c2)
        /\ c1.text = c2.text
        /\ c1.targetLang = c2.targetLang
        => /\ c1.status = c2.status
           /\ c1.result.translatedText = c2.result.translatedText
           /\ c1.result.apiUsed = c2.result.apiUsed
           /\ c1.error = c2.error

\* both calls got their translation from the second provider, the first
\* having answered only after the timeout
C12_Witness ==
    LET c1 == direct.calls[1]
        c2 == direct.calls[2]
    IN  /\ c1.status = "returned" /\ c2.status = "returned"
        /\ c1.text = c2.text /\ c1.targetLang = c2.targetLang
        /\ c1.result.apiUsed = APIS[2].name
        /\ c1.promise[1].afterAbort /\ c2.promise[1].afterAbort

\* C13: translateText never writes CONFIG.currentAPIIndex, selectedTargetLang
\* or isTranslating, and each of two calls that overlap has exactly the
\* outcome it has when it runs alone against the same provider responses.
C13_NoSharedState ==
    /\ [][/\ currentAPIIndex' = currentAPIIndex
          /\ selectedTargetLang' = selectedTargetLang
          /\ isTranslating' = isTranslating]_vars
    /\ [](\A k \in Callers :
            LET c == direct.calls[k]
            IN  Settled(c)
                => Outcome(c) =
                     Outcome(RunAlone(translateText(c.text, c.targetLang),
                                      direct.mock)))

\* two overlapping calls with different arguments have both returned
C13_Witness ==
    LET c1 == direct.calls[1]
        c2 == direct.calls[2]
    IN  /\ direct.overlapped
        /\ c1.status = "returned" /\ c2.status = "returned"
        /\ c1.text # c2.text
        /\ c1.targetLang # c2.targetLang
        /\ c1.result.translatedText # c2.result.translatedText

\* C21: when a translation is displayed, the right-to-left flag and the
\* 'Translated to' label are those of the target language that was passed to
\* translateText, also when another language button was clicked while the
\* request was in progress.
C21_LabelsOfRequestedLanguage ==
    call.status = "returned"
    => /\ elements.rtl = LANGUAGES[call.targetLang].rtl
       /\ elements.detectedLang.translatedTo = LANGUAGES[call.targetLang].name

\* C22: after initialization the copy button is enabled only if the output
\* state is the one shown, and every step that changes the view to the empty,
\* loading or error state leaves the copy button disabled.
C22_CopyOnlyWithOutput ==
    /\ [](initialized /\ ~elements.copyBtnDisabled
          => elements.shown = { "output" })
    /\ [][/\ elements'.shown # elements.shown
          /\ "output" \notin elements'.shown
          => elements'.copyBtnDisabled]_vars

\* a displayed translation was reset by an edit of the input: the copy button
\* is disabled again
C22_Witness ==
    /\ finished = 1
    /\ call.status = "idle"
    /\ elements.shown = { "empty" }
    /\ elements.outputText # EmptyString
    /\ elements.inputValue # << >>
    /\ elements.copyBtnDisabled

\* C23: after initialization, no translation being in progress, the translate
\* button is enabled exactly when the trimmed input has at least MIN_CHARS
\* characters and a target language is selected.
C23_ButtonEnabledIffTranslatable ==
    initialized /\ ~isTranslating
    => (~elements.translateBtnDisabled
        <=> /\ Length(Trim(elements.inputValue)) >= MIN_CHARS
            /\ selectedTargetLang # Null)

====
